---- MODULE Spec2Model ----
(***************************************************************************)
(* Recipe-sharing backend (backend/src/index.ts, models/user.ts,           *)
(* models/recipe.ts): registration, login, the bearer-token gate and the   *)
(* owner-scoped recipe routes, as a state machine over the document store. *)
(*                                                                         *)
(* Every handler is split at its awaits on the store: one action per store *)
(* round-trip, so that the round-trips of requests in flight together      *)
(* interleave.  A store round-trip is modelled as succeeding, except the    *)
(* users.deleteOne of the account removal, which may also reject.          *)
(* The gate and the synchronous start of a handler run in one turn of the  *)
(* event loop, in which only the clock can move: they are one action, with *)
(* the clock value the gate saw as a parameter.                            *)
(***************************************************************************)
EXTENDS Integers, FiniteSets, Sequences, TLC

\* ---------------------------------------------------------------- bounds
MaxUsers   == 2      \* accounts ever inserted
MaxRecipes == 1      \* recipes ever inserted
MaxTime    == 3      \* clock ticks observed
MaxStored  == 2      \* recipes in the store when the update runs start
TokenTTL   == 2      \* expiresIn: "1h", in clock ticks

Clients   == {"c1", "c2"}
Names     == {"a", "b"}          \* strings used as usernames and as emails
Passwords == {"p", "q"}

\* ------------------------------------------------------- JavaScript values
Undef    == "<undefined>"        \* a field missing from the JSON body
Empty    == ""                   \* the empty string
NotArray == "<not-array>"        \* a value for which Array.isArray is false
NoSecret == ""                   \* process.env.JWT_SECRET unset

Falsy(x) == x \in {Undef, Empty}
Coalesce(x, y) == IF x = Undef THEN y ELSE x          \* x ?? y
IsArray(x) == x \notin {Undef, NotArray}

\* ObjectId: ids are positive integers, 0 stands for a malformed id string
IsValidObjectId(p) == p >= 1
\* user._id.toString(): the hex string of an ObjectId
IdString(id) == <<"hex", id>>
\* new ObjectId(sub): the ObjectId a hex string denotes
NewObjectId(str) == str[2]
\* a payload without sub
NoSub == <<"", 0>>

VARIABLES
  users,      \* the users collection: set of account documents
  recipes,    \* the recipes collection: set of recipe documents
  nextUid,    \* next ObjectId the driver generates for an account
  nextRid,    \* next ObjectId the driver generates for a recipe
  secret,     \* process.env.JWT_SECRET
  now,        \* the wall clock read by jwt.sign / jwt.verify
  held,       \* the token most recently issued by login, as clients hold it
  slot,       \* per client: its request in flight (position and locals)
  last,       \* the response on the wire, NoResp once the client has it
  serial,     \* TRUE: clients send a request only when none is in flight
  creator,    \* history: recipe id -> subject of the token that created it
  removed,    \* history: accounts whose DELETE /api/account answered 200
  cascaded    \* history: recipe ids removed by an account removal

vars == <<users, recipes, nextUid, nextRid, secret, now, held, slot, last,
          serial, creator, removed, cascaded>>

store == <<users, recipes>>
hist  == <<creator, removed, cascaded>>

\* ------------------------------------------------------------- documents
NoToken == [sub |-> NoSub, username |-> "", email |-> "", iat |-> 0, exp |-> 0,
            sig |-> ""]
\* a token this server's jwt.sign never produced
Forged  == [sub |-> IdString(1), username |-> "a", email |-> "a", iat |-> 0,
            exp |-> MaxTime + TokenTTL, sig |-> "forged"]

NoDoc == [id |-> 0]

Idle == [route |-> "", pc |-> "idle", username |-> "", email |-> "",
         password |-> "", id |-> 0]

\* a response; at is the line of the statement that sends it
Resp(route, status, message, body, at) ==
  [route |-> route, status |-> status, message |-> message, body |-> body,
   at |-> at]
NoResp == Resp("", 0, "", NoDoc, 0)

\* ------------------------------------------------------- models/user.ts
\* bcrypt: the stored hash is not the plaintext; compare recovers the match
hashPassword(plain) == <<"bcrypt", plain>>
comparePassword(candidate, hashed) == hashed = <<"bcrypt", candidate>>
sanitizeUser(u) == [id |-> u.id, username |-> u.username, email |-> u.email]

\* ------------------------------------------------------- jsonwebtoken
\* jwt.sign(payload, secret, {expiresIn: "1h"}) at clock t
jwtSign(u, sec, t) ==
  [sub |-> IdString(u.id), username |-> u.username, email |-> u.email,
   iat |-> t, exp |-> t + TokenTTL, sig |-> sec]

jwtVerifyExpiredAtBoundary(tok, sec, t) == tok.sig = sec /\ t <= tok.exp
\* jwt.verify(token, secret) at clock t: TRUE iff it does not throw
jwtVerify(tok, sec, t) == tok.sig = sec /\ t < tok.exp

\* ------------------------------------------------------- store queries
RegisterMatchUsernameOnly(username, email) ==
  {u \in users : u.username = username}
\* users.findOne({$or: [{username}, {email}]}): the documents it may return
RegisterMatch(username, email) ==
  {u \in users : u.username = username \/ u.email = email}

\* users.findOne({$or: [{username: identifier}, {email: identifier}]})
LoginMatch(identifier) ==
  {u \in users : u.username = identifier \/ u.email = identifier}

UserById(id) == {u \in users : u.id = id}
RecipeById(id) == {r \in recipes : r.id = id}

OwnedMatchAnyOwner(id, ownerId) == {r \in recipes : r.id = id}
\* the documents matched by the filter {_id: recipeId, ownerId}
OwnedMatch(id, ownerId) == {r \in recipes : r.id = id /\ r.ownerId = ownerId}

DeleteManyNone(ownerId) == recipes
\* recipes.deleteMany({ownerId: userId}): the collection afterwards
DeleteMany(ownerId) == {r \in recipes : r.ownerId # ownerId}

\* ------------------------------------------------------------------ Init
Init0 ==
  /\ users = {}
  /\ recipes = {}
  /\ nextUid = 1
  /\ nextRid = 1
  /\ secret \in {NoSecret, "S1"}
  /\ now = 0
  /\ held = NoToken
  /\ slot = [c \in Clients |-> Idle]
  /\ last = NoResp
  /\ creator = [r \in {} |-> 0]
  /\ removed = {}
  /\ cascaded = {}

Init == Init0 /\ serial = FALSE
InitSerial == Init0 /\ serial = TRUE

\* a recipe as POST /api/recipes stores it for the account owner
Stored(id, owner) ==
  [id |-> id, title |-> "v1", description |-> "v1", ingredients |-> "v1",
   instructions |-> "v1", ownerId |-> owner.id, ownerUsername |-> owner.username]

\* a store in service: the accounts a and b are registered and MaxStored
\* recipes are stored, the first created by a, each other by a or by b
InitStored ==
  /\ \E owners \in [1 .. MaxStored -> 1 .. MaxUsers] :
       LET account == [i \in 1 .. MaxUsers |->
                         [id |-> i, username |-> IF i = 1 THEN "a" ELSE "b",
                          email |-> IF i = 1 THEN "a" ELSE "b",
                          password |-> hashPassword("p")]] IN
       /\ owners[1] = 1
       /\ users = {account[i] : i \in 1 .. MaxUsers}
       /\ recipes = {Stored(i, account[owners[i]]) : i \in 1 .. MaxStored}
       /\ creator = [i \in 1 .. MaxStored |-> IdString(owners[i])]
  /\ nextUid = MaxUsers + 1
  /\ nextRid = MaxStored + 1
  /\ secret = "S1"
  /\ now = 0
  /\ held = NoToken
  /\ slot = [c \in Clients |-> Idle]
  /\ last = NoResp
  /\ serial = FALSE
  /\ removed = {}
  /\ cascaded = {}

\* a response is read by its client before the server takes its next step:
\* reading it commutes with every server step
Deliver ==
  /\ last # NoResp
  /\ last' = NoResp
  /\ UNCHANGED <<store, nextUid, nextRid, secret, now, held, slot, serial, hist>>

\* the request of client c is at position pc of the handler of route
At(c, route, pc) ==
  /\ last = NoResp
  /\ slot[c].route = route
  /\ slot[c].pc = pc

\* a client sends a request
CanStart(c) ==
  /\ last = NoResp
  /\ slot[c].pc = "idle"
  /\ serial => \A d \in Clients : slot[d].pc = "idle"

Reply(c, r) ==
  /\ last' = r
  /\ slot' = [slot EXCEPT ![c] = Idle]

\* ------------------------------------------------- POST /api/register
\* validation and the existence lookup
RegisterLookup(c, username, email, password) ==
  /\ CanStart(c)
  /\ IF Falsy(username) \/ Falsy(email) \/ Falsy(password)
       THEN Reply(c, Resp("register", 400, "Missing required fields", NoDoc, 247))
     ELSE IF RegisterMatch(username, email) # {}
       THEN Reply(c, Resp("register", 409, "User already exists", NoDoc, 258))
     ELSE /\ slot' = [slot EXCEPT ![c] =
                 [Idle EXCEPT !.route = "register", !.pc = "inserting",
                              !.username = username, !.email = email,
                              !.password = password]]
          /\ UNCHANGED last
  /\ UNCHANGED <<store, nextUid, nextRid, secret, now, held, serial, hist>>

\* hashPassword and users.insertOne
RegisterInsert(c) ==
  /\ At(c, "register", "inserting")
  /\ nextUid <= MaxUsers
  /\ users' = users \cup {[id |-> nextUid, username |-> slot[c].username,
                           email |-> slot[c].email,
                           password |-> hashPassword(slot[c].password)]}
  /\ nextUid' = nextUid + 1
  /\ slot' = [slot EXCEPT ![c] =
                 [Idle EXCEPT !.route = "register", !.pc = "inserted",
                              !.id = nextUid]]
  /\ UNCHANGED <<recipes, nextRid, secret, now, held, last, serial, hist>>

\* users.findOne({_id: insertedId}) and the response
RegisterRespond(c) ==
  /\ At(c, "register", "inserted")
  /\ IF UserById(slot[c].id) = {}
       THEN Reply(c, Resp("register", 500, "Registration failed", NoDoc, 266))
       ELSE \E created \in UserById(slot[c].id) :
              Reply(c, Resp("register", 201, "", sanitizeUser(created), 269))
  /\ UNCHANGED <<store, nextUid, nextRid, secret, now, held, serial, hist>>

\* ---------------------------------------------------- POST /api/login
NoSuchUserAs404 == Resp("login", 404, "User not found", NoDoc, 297)
\* the response when the lookup finds no account
NoSuchUser == Resp("login", 401, "Invalid credentials", NoDoc, 297)
\* the response when comparePassword answers false
WrongPassword == Resp("login", 401, "Invalid credentials", NoDoc, 302)

\* validation, secret check, lookup by identifier, comparePassword (which
\* reads only the document found, so it is taken with the lookup)
LoginLookup(c, username, email, password) ==
  /\ CanStart(c)
  /\ LET identifier == Coalesce(username, email) IN
     IF Falsy(identifier) \/ Falsy(password)
       THEN Reply(c, Resp("login", 400, "Missing required fields", NoDoc, 282))
     ELSE IF secret = NoSecret
       THEN Reply(c, Resp("login", 500, "JWT secret not configured", NoDoc, 286))
     ELSE IF LoginMatch(identifier) = {}
       THEN Reply(c, NoSuchUser)
     ELSE \E user \in LoginMatch(identifier) :
            IF ~comparePassword(password, user.password)
              THEN Reply(c, WrongPassword)
              ELSE /\ slot' = [slot EXCEPT ![c] =
                        [Idle EXCEPT !.route = "login", !.pc = "signing",
                                     !.username = user.username,
                                     !.email = user.email, !.id = user.id]]
                   /\ UNCHANGED last
  /\ UNCHANGED <<store, nextUid, nextRid, secret, now, held, serial, hist>>

\* jwt.sign and the response; the client keeps the token
LoginSign(c) ==
  /\ At(c, "login", "signing")
  /\ LET user == [id |-> slot[c].id, username |-> slot[c].username,
                  email |-> slot[c].email] IN
       /\ held' = jwtSign(user, secret, now)
       /\ Reply(c, Resp("login", 200, "", sanitizeUser(user), 311))
  /\ UNCHANGED <<store, nextUid, nextRid, secret, now, serial, hist>>

\* ------------------------------------------------------- requireAuth
Pass == Resp("", 200, "next", NoDoc, 231)

\* the gate at clock t: Pass when it calls next(), else the response it sends
requireAuth(route, tok, t) ==
  IF tok = NoToken THEN Resp(route, 401, "Missing token", NoDoc, 222)
  ELSE IF secret = NoSecret
    THEN Resp(route, 500, "JWT secret not configured", NoDoc, 226)
  ELSE IF ~jwtVerify(tok, secret, t)
    THEN Resp(route, 401, "Invalid token", NoDoc, 233)
  ELSE Pass

\* the checks every protected handler repeats before it reads the body
Recheck(route, tok, at) ==
  IF tok = NoToken THEN Resp(route, 401, "Missing token", NoDoc, at)
  ELSE IF secret = NoSecret
    THEN Resp(route, 500, "JWT secret not configured", NoDoc, at + 4)
  ELSE Pass

\* ------------------------------------------------- GET /api/token-test
TokenTest(c, tok) ==
  /\ CanStart(c)
  /\ LET g == requireAuth("token-test", tok, now) IN
       IF g # Pass THEN Reply(c, g)
       ELSE Reply(c, Resp("token-test", 200, "Token is valid", NoDoc, 320))
  /\ UNCHANGED <<store, nextUid, nextRid, secret, now, held, serial, hist>>

\* --------------------------------------------------- POST /api/recipes
\* The gate runs at clock t0 <= now, the handler's own jwt.verify at now.
\* Gate, validation, verify and recipes.insertOne
CreateRecipe(c, tok, t0, body) ==
  /\ CanStart(c)
  /\ LET g == requireAuth("create", tok, t0)
         h == Recheck("create", tok, 329) IN
     IF g # Pass THEN Reply(c, g) /\ UNCHANGED <<recipes, nextRid, creator>>
     ELSE IF h # Pass THEN Reply(c, h) /\ UNCHANGED <<recipes, nextRid, creator>>
     ELSE IF Falsy(body.title) \/ Falsy(body.description)
             \/ ~IsArray(body.ingredients) \/ Falsy(body.instructions)
       THEN /\ Reply(c, Resp("create", 400, "Missing or invalid fields", NoDoc, 338))
            /\ UNCHANGED <<recipes, nextRid, creator>>
     ELSE IF ~jwtVerify(tok, secret, now)
       THEN /\ Reply(c, Resp("create", 500, "Recipe creation failed", NoDoc, 370))
            /\ UNCHANGED <<recipes, nextRid, creator>>
     ELSE IF tok.sub = NoSub
       THEN /\ Reply(c, Resp("create", 401, "Invalid token", NoDoc, 347))
            /\ UNCHANGED <<recipes, nextRid, creator>>
     ELSE /\ nextRid <= MaxRecipes
          /\ recipes' = recipes \cup
               {[id |-> nextRid, title |-> body.title,
                 description |-> body.description,
                 ingredients |-> body.ingredients,
                 instructions |-> body.instructions,
                 ownerId |-> NewObjectId(tok.sub),
                 ownerUsername |-> tok.username]}
          /\ nextRid' = nextRid + 1
          /\ creator' = (nextRid :> tok.sub) @@ creator
          /\ slot' = [slot EXCEPT ![c] =
                 [Idle EXCEPT !.route = "create", !.pc = "created",
                              !.id = nextRid]]
          /\ UNCHANGED last
  /\ UNCHANGED <<users, nextUid, secret, now, held, serial, removed, cascaded>>

\* recipes.findOne({_id: insertedId}) and the response
CreateRecipeRespond(c) ==
  /\ At(c, "create", "created")
  /\ IF RecipeById(slot[c].id) = {}
       THEN Reply(c, Resp("create", 500, "Recipe creation failed", NoDoc, 364))
       ELSE \E created \in RecipeById(slot[c].id) :
              Reply(c, Resp("create", 201, "", created, 367))
  /\ UNCHANGED <<store, nextUid, nextRid, secret, now, held, serial, hist>>

\* ---------------------------------------------- PATCH /api/recipes/:id
RecipeFields == {"title", "description", "ingredients", "instructions"}

UpdateOfWithOwner(body) ==
  [f \in {g \in RecipeFields : body[g] # Undef} \cup
         {g \in {"ownerId"} : body[g] # 0} |-> body[f]]
\* the update document built from the body
UpdateOf(body) == [f \in {g \in RecipeFields : body[g] # Undef} |-> body[f]]

SetReplacing(r, update) ==
  [f \in DOMAIN r |-> IF f \in DOMAIN update THEN update[f]
                      ELSE IF f \in RecipeFields THEN Undef ELSE r[f]]
\* {$set: update} applied to document r
Set(r, update) ==
  [f \in DOMAIN r |-> IF f \in DOMAIN update THEN update[f] ELSE r[f]]

\* Gate, building the update, verify, id check and recipes.updateOne
PatchRecipe(c, tok, t0, id, body) ==
  /\ CanStart(c)
  /\ LET g == requireAuth("patch", tok, t0)
         h == Recheck("patch", tok, 380)
         update == UpdateOf(body)
         matched == OwnedMatch(id, NewObjectId(tok.sub)) IN
     IF g # Pass THEN Reply(c, g) /\ UNCHANGED recipes
     ELSE IF h # Pass THEN Reply(c, h) /\ UNCHANGED recipes
     ELSE IF body.ingredients = NotArray
       THEN /\ Reply(c, Resp("patch", 400, "Invalid ingredients", NoDoc, 394))
            /\ UNCHANGED recipes
     ELSE IF DOMAIN update = {}
       THEN /\ Reply(c, Resp("patch", 400, "No valid fields to update", NoDoc, 401))
            /\ UNCHANGED recipes
     ELSE IF ~jwtVerify(tok, secret, now)
       THEN /\ Reply(c, Resp("patch", 500, "Recipe update failed", NoDoc, 439))
            /\ UNCHANGED recipes
     ELSE IF tok.sub = NoSub
       THEN /\ Reply(c, Resp("patch", 401, "Invalid token", NoDoc, 409))
            /\ UNCHANGED recipes
     ELSE IF ~IsValidObjectId(id)
       THEN /\ Reply(c, Resp("patch", 400, "Invalid recipe id", NoDoc, 417))
            /\ UNCHANGED recipes
     ELSE IF matched = {}
       THEN /\ Reply(c, Resp("patch", 404, "Recipe not found", NoDoc, 428))
            /\ UNCHANGED recipes
     ELSE /\ recipes' = (recipes \ matched) \cup {Set(r, update) : r \in matched}
          /\ slot' = [slot EXCEPT ![c] =
                 [Idle EXCEPT !.route = "patch", !.pc = "updated", !.id = id]]
          /\ UNCHANGED last
  /\ UNCHANGED <<users, nextUid, nextRid, secret, now, held, serial, hist>>

\* recipes.findOne({_id: recipeId}) and the response
PatchRecipeRespond(c) ==
  /\ At(c, "patch", "updated")
  /\ IF RecipeById(slot[c].id) = {}
       THEN Reply(c, Resp("patch", 500, "Recipe update failed", NoDoc, 433))
       ELSE \E updated \in RecipeById(slot[c].id) :
              Reply(c, Resp("patch", 200, "", updated, 436))
  /\ UNCHANGED <<store, nextUid, nextRid, secret, now, held, serial, hist>>

\* ------------------------------------------------- DELETE /api/account
NoAccountAs200 == Resp("account", 200, "Account deleted", NoDoc, 475)
\* the response when users.deleteOne deleted nothing
NoAccount == Resp("account", 404, "User not found", NoDoc, 472)
\* the response of the catch block
RemovalFailed == Resp("account", 500, "Account deletion failed", NoDoc, 478)

\* Gate, verify and recipes.deleteMany
DeleteAccount(c, tok, t0) ==
  /\ CanStart(c)
  /\ LET g == requireAuth("account", tok, t0)
         h == Recheck("account", tok, 449) IN
     IF g # Pass THEN Reply(c, g) /\ UNCHANGED <<recipes, cascaded>>
     ELSE IF h # Pass THEN Reply(c, h) /\ UNCHANGED <<recipes, cascaded>>
     ELSE IF ~jwtVerify(tok, secret, now)
       THEN /\ Reply(c, RemovalFailed)
            /\ UNCHANGED <<recipes, cascaded>>
     ELSE IF tok.sub = NoSub
       THEN /\ Reply(c, Resp("account", 401, "Invalid token", NoDoc, 461))
            /\ UNCHANGED <<recipes, cascaded>>
     ELSE /\ recipes' = DeleteMany(NewObjectId(tok.sub))
          /\ cascaded' = cascaded \cup
               {r.id : r \in {x \in recipes : x.ownerId = NewObjectId(tok.sub)}}
          /\ slot' = [slot EXCEPT ![c] =
                 [Idle EXCEPT !.route = "account", !.pc = "cascaded",
                              !.id = NewObjectId(tok.sub)]]
          /\ UNCHANGED last
  /\ UNCHANGED <<users, nextUid, nextRid, secret, now, held, serial, creator, removed>>

\* users.deleteOne({_id: userId}) and the response; the round-trip may reject,
\* which the catch block answers
DeleteAccountRemove(c) ==
  /\ At(c, "account", "cascaded")
  /\ \/ /\ Reply(c, RemovalFailed)
        /\ UNCHANGED <<users, removed>>
     \/ IF UserById(slot[c].id) = {}
          THEN /\ Reply(c, NoAccount)
               /\ UNCHANGED <<users, removed>>
          ELSE /\ users' = users \ UserById(slot[c].id)
               /\ removed' = removed \cup {slot[c].id}
               /\ Reply(c, Resp("account", 200, "Account deleted", NoDoc, 475))
  /\ UNCHANGED <<recipes, nextUid, nextRid, secret, now, held, serial, creator, cascaded>>

\* --------------------------------------------- DELETE /api/recipes/:id
\* Gate, verify, new ObjectId(param) and recipes.deleteOne
DeleteRecipe(c, tok, t0, id) ==
  /\ CanStart(c)
  /\ LET g == requireAuth("delete", tok, t0)
         h == Recheck("delete", tok, 488)
         matched == OwnedMatch(id, NewObjectId(tok.sub)) IN
     IF g # Pass THEN Reply(c, g) /\ UNCHANGED recipes
     ELSE IF h # Pass THEN Reply(c, h) /\ UNCHANGED recipes
     ELSE IF ~jwtVerify(tok, secret, now)
       THEN /\ Reply(c, Resp("delete", 500, "Recipe deletion failed", NoDoc, 517))
            /\ UNCHANGED recipes
     ELSE IF tok.sub = NoSub
       THEN /\ Reply(c, Resp("delete", 401, "Invalid token", NoDoc, 500))
            /\ UNCHANGED recipes
     ELSE IF ~IsValidObjectId(id)
       THEN /\ Reply(c, Resp("delete", 500, "Recipe deletion failed", NoDoc, 517))
            /\ UNCHANGED recipes
     ELSE IF matched = {}
       THEN /\ Reply(c, Resp("delete", 404, "Recipe not found", NoDoc, 511))
            /\ UNCHANGED recipes
     ELSE /\ recipes' = recipes \ matched
          /\ Reply(c, Resp("delete", 200, "Recipe deleted", NoDoc, 514))
  /\ UNCHANGED <<users, nextUid, nextRid, secret, now, held, serial, hist>>

\* ------------------------------------------------ GET /api/recipes/:id
GetRecipeMalformedAs404(id) ==
  IF RecipeById(id) = {}
    THEN {Resp("get", 404, "Recipe not found", NoDoc, 530)}
    ELSE {Resp("get", 200, "", item, 533) : item \in RecipeById(id)}
\* new ObjectId(param), recipes.findOne({_id}): the responses it may send
GetRecipeResponse(id) ==
  IF ~IsValidObjectId(id)
    THEN {Resp("get", 400, "Invalid recipe id", NoDoc, 536)}
  ELSE IF RecipeById(id) = {}
    THEN {Resp("get", 404, "Recipe not found", NoDoc, 530)}
  ELSE {Resp("get", 200, "", item, 533) : item \in RecipeById(id)}

GetRecipe(c, id) ==
  /\ CanStart(c)
  /\ \E r \in GetRecipeResponse(id) : Reply(c, r)
  /\ UNCHANGED <<store, nextUid, nextRid, secret, now, held, serial, hist>>

\* --------------------------------------------------- GET /api/recipes
GetRecipes(c) ==
  /\ CanStart(c)
  /\ Reply(c, Resp("list", 200, "", [id |-> 0, items |-> recipes], 545))
  /\ UNCHANGED <<store, nextUid, nextRid, secret, now, held, serial, hist>>

\* ------------------------------------------------------- environment
\* the clock is observed only through tokens
Tick ==
  /\ last = NoResp
  /\ held # NoToken
  /\ now < MaxTime
  /\ now' = now + 1
  /\ UNCHANGED <<store, nextUid, nextRid, secret, held, slot, last, serial, hist>>

\* the process is restarted with a rotated JWT_SECRET; requests in flight die
Restart ==
  /\ last = NoResp
  /\ secret = "S1"
  /\ secret' = "S2"
  /\ slot' = [c \in Clients |-> Idle]
  /\ UNCHANGED <<store, nextUid, nextRid, now, held, last, serial, hist>>

\* ------------------------------------------------------- request inputs
\* every valid body, and representatives of the invalid ones
RegisterBodies ==
  [username : Names, email : Names, password : Passwords] \cup
  { [username |-> Undef, email |-> "a", password |-> "p"],
    [username |-> "a", email |-> Empty, password |-> "p"],
    [username |-> "a", email |-> "a", password |-> Undef] }

LoginBodies ==
  [username : Names \cup {Undef}, email : {Undef}, password : Passwords] \cup
  [username : {Undef}, email : Names, password : Passwords] \cup
  { [username |-> Empty, email |-> "a", password |-> "p"],
    [username |-> "a", email |-> Undef, password |-> Undef] }

\* accounts with distinct names
SomeRegisterBodies ==
  { [username |-> "a", email |-> "a", password |-> "p"],
    [username |-> "b", email |-> "b", password |-> "p"],
    [username |-> "a", email |-> Undef, password |-> "p"] }

SomeLoginBodies ==
  [username : Names, email : {Undef}, password : Passwords] \cup
  { [username |-> Undef, email |-> "a", password |-> "p"],
    [username |-> Empty, email |-> "a", password |-> "p"] }

\* what a client may put in the Authorization header
Headers == {NoToken, held, Forged}
\* the clock when the gate ran: the handler's verify runs at now
GateTimes == {t \in {now - 1, now} : t >= 0}
IdParams == 0 .. MaxRecipes

CreateBodies ==
  { [title |-> "v1", description |-> "v1", ingredients |-> "v1", instructions |-> "v1"],
    [title |-> Undef, description |-> "v1", ingredients |-> "v1", instructions |-> "v1"],
    [title |-> "v1", description |-> Empty, ingredients |-> "v1", instructions |-> "v1"],
    [title |-> "v1", description |-> "v1", ingredients |-> NotArray, instructions |-> "v1"],
    [title |-> "v1", description |-> "v1", ingredients |-> "v1", instructions |-> Undef] }

SomePatchBodies ==
  { [title |-> "v2", description |-> Undef, ingredients |-> Undef,
     instructions |-> Undef, ownerId |-> 0],
    [title |-> Undef, description |-> Undef, ingredients |-> "v2",
     instructions |-> "v2", ownerId |-> 0],
    [title |-> Undef, description |-> Undef, ingredients |-> Undef,
     instructions |-> Undef, ownerId |-> 0],
    [title |-> "v2", description |-> Undef, ingredients |-> NotArray,
     instructions |-> Undef, ownerId |-> 0],
    [title |-> "v2", description |-> Undef, ingredients |-> Undef,
     instructions |-> Undef, ownerId |-> 2],
    [title |-> Undef, description |-> Undef, ingredients |-> Undef,
     instructions |-> Undef, ownerId |-> 1] }

\* every subset of the four fields, ingredients an array or not
PatchBodies ==
  [title : {Undef, "v2"}, description : {Undef, "v2"},
   ingredients : {Undef, "v2", NotArray}, instructions : {Undef, "v2"},
   ownerId : {0}]
StoredIds == 0 .. MaxStored
\* the login of account a
OwnerLoginBodies == {[username |-> "a", email |-> Undef, password |-> "p"]}

ValidPatch(body) == body.ingredients # NotArray /\ DOMAIN UpdateOf(body) # {}
ValidCreate(body) ==
  ~(Falsy(body.title) \/ Falsy(body.description) \/ ~IsArray(body.ingredients)
    \/ Falsy(body.instructions))

\* ------------------------------------------------------ specifications
\* the whole API with the clock and a restart, over accounts with distinct names
Next ==
  \/ \E c \in Clients, b \in SomeRegisterBodies :
       RegisterLookup(c, b.username, b.email, b.password)
  \/ \E c \in Clients : RegisterInsert(c)
  \/ \E c \in Clients : RegisterRespond(c)
  \/ \E c \in Clients, b \in SomeLoginBodies :
       LoginLookup(c, b.username, b.email, b.password)
  \/ \E c \in Clients : LoginSign(c)
  \/ \E c \in Clients, tok \in Headers : TokenTest(c, tok)
  \/ \E c \in Clients, tok \in Headers, t0 \in GateTimes, body \in CreateBodies :
       CreateRecipe(c, tok, t0, body)
  \/ \E c \in Clients : CreateRecipeRespond(c)
  \/ \E c \in Clients, tok \in Headers, t0 \in GateTimes, id \in IdParams,
        body \in SomePatchBodies : PatchRecipe(c, tok, t0, id, body)
  \/ \E c \in Clients : PatchRecipeRespond(c)
  \/ \E c \in Clients, tok \in Headers, t0 \in GateTimes : DeleteAccount(c, tok, t0)
  \/ \E c \in Clients : DeleteAccountRemove(c)
  \/ \E c \in Clients, tok \in Headers, t0 \in GateTimes, id \in IdParams :
       DeleteRecipe(c, tok, t0, id)
  \/ \E c \in Clients, id \in IdParams : GetRecipe(c, id)
  \/ \E c \in Clients : GetRecipes(c)
  \/ Deliver
  \/ Tick
  \/ Restart

\* the account routes alone, over every combination of names and passwords
NextAccounts ==
  \/ \E c \in Clients, b \in RegisterBodies :
       RegisterLookup(c, b.username, b.email, b.password)
  \/ \E c \in Clients : RegisterInsert(c)
  \/ \E c \in Clients : RegisterRespond(c)
  \/ \E c \in Clients, b \in LoginBodies :
       LoginLookup(c, b.username, b.email, b.password)
  \/ \E c \in Clients : LoginSign(c)
  \/ \E c \in Clients, tok \in Headers : DeleteAccount(c, tok, now)
  \/ \E c \in Clients : DeleteAccountRemove(c)
  \/ Deliver

\* the recipe routes on a stopped clock, over accounts with distinct names
NextRecipes ==
  \/ \E c \in Clients, b \in SomeRegisterBodies :
       RegisterLookup(c, b.username, b.email, b.password)
  \/ \E c \in Clients : RegisterInsert(c)
  \/ \E c \in Clients : RegisterRespond(c)
  \/ \E c \in Clients, b \in SomeLoginBodies :
       LoginLookup(c, b.username, b.email, b.password)
  \/ \E c \in Clients : LoginSign(c)
  \/ \E c \in Clients, tok \in Headers, body \in CreateBodies :
       CreateRecipe(c, tok, now, body)
  \/ \E c \in Clients : CreateRecipeRespond(c)
  \/ \E c \in Clients, tok \in Headers, id \in IdParams, body \in SomePatchBodies :
       PatchRecipe(c, tok, now, id, body)
  \/ \E c \in Clients : PatchRecipeRespond(c)
  \/ \E c \in Clients, tok \in Headers : DeleteAccount(c, tok, now)
  \/ \E c \in Clients : DeleteAccountRemove(c)
  \/ \E c \in Clients, tok \in Headers, id \in IdParams : DeleteRecipe(c, tok, now, id)
  \/ \E c \in Clients, id \in IdParams : GetRecipe(c, id)
  \/ \E c \in Clients : GetRecipes(c)
  \/ Deliver

\* PATCH with every body on a store in service, next to the owner's deletes,
\* each request carrying the token its client holds
NextPatch ==
  \/ \E c \in Clients, b \in OwnerLoginBodies :
       LoginLookup(c, b.username, b.email, b.password)
  \/ \E c \in Clients : LoginSign(c)
  \/ \E c \in Clients, id \in StoredIds, body \in PatchBodies :
       PatchRecipe(c, held, now, id, body)
  \/ \E c \in Clients : PatchRecipeRespond(c)
  \/ \E c \in Clients, id \in StoredIds : DeleteRecipe(c, held, now, id)
  \/ Deliver

\* the whole API, one request in flight at a time
Spec == InitSerial /\ [][Next]_vars
\* requests in flight together: their store round-trips interleave
SpecAccounts == Init /\ [][NextAccounts]_vars
SpecRecipes == Init /\ [][NextRecipes]_vars
\* the account routes, one request in flight at a time
SpecSerial == InitSerial /\ [][NextAccounts]_vars
\* partial updates in flight together on a store in service
SpecPatch == InitStored /\ [][NextPatch]_vars

\* ------------------------------------------------------------- claims
UserIds == {u.id : u \in users}
\* tok passes the gate at t0 and the handler's verify at now
Authentic(tok, t0) == requireAuth("", tok, t0) = Pass /\ jwtVerify(tok, secret, now)
\* id is well-formed and names no recipe owned by the subject of tok
Masked(id, tok) ==
  IsValidObjectId(id) /\ \A r \in RecipeById(id) : r.ownerId # NewObjectId(tok.sub)

\* C1: a PATCH (with a valid body) or a DELETE of a recipe, sent with a valid
\* token whose subject does not own the recipe, answers 404 'Recipe not found',
\* exactly as for a well-formed id that matches no recipe, and leaves both
\* collections as they were.
C1_NonOwnerIsNotFound ==
  [][\A c \in Clients, tok \in Headers, t0 \in GateTimes, id \in IdParams :
       (Authentic(tok, t0) /\ Masked(id, tok)) =>
         /\ \A body \in SomePatchBodies :
              (ValidPatch(body) /\ PatchRecipe(c, tok, t0, id, body)) =>
                /\ last' = Resp("patch", 404, "Recipe not found", NoDoc, 428)
                /\ UNCHANGED store
         /\ DeleteRecipe(c, tok, t0, id) =>
              /\ last' = Resp("delete", 404, "Recipe not found", NoDoc, 511)
              /\ UNCHANGED store]_vars

\* a request on a stored recipe by another account's token was just answered 404
C1_Witness ==
  /\ last \in {Resp("patch", 404, "Recipe not found", NoDoc, 428),
               Resp("delete", 404, "Recipe not found", NoDoc, 511)}
  /\ NewObjectId(held.sub) \in UserIds
  /\ \E r \in recipes : r.ownerId # NewObjectId(held.sub) /\ r.title = "v1"

\* C2: with one request in flight at a time, a registration whose username or
\* email is already stored answers 409 and inserts nothing; one whose username
\* and email are both unused inserts exactly one account and answers 201.
C2_SerialRegister ==
  [][\A c \in Clients :
       /\ \A b \in RegisterBodies :
            (~Falsy(b.username) /\ ~Falsy(b.email) /\ ~Falsy(b.password)
               /\ RegisterLookup(c, b.username, b.email, b.password)) =>
              /\ UNCHANGED store
              /\ IF \E u \in users : u.username = b.username \/ u.email = b.email
                   THEN last' = Resp("register", 409, "User already exists", NoDoc, 258)
                   ELSE slot'[c].pc = "inserting" /\ last' = NoResp
       /\ RegisterInsert(c) =>
            /\ \A u \in users : u.username # slot[c].username /\ u.email # slot[c].email
            /\ users \subseteq users'
            /\ Cardinality(users') = Cardinality(users) + 1
       /\ RegisterRespond(c) =>
            /\ UNCHANGED store
            /\ last'.status = 201
            /\ last'.body \in {sanitizeUser(u) : u \in users}]_vars

\* a registration was just refused while an account is stored
C2_Witness ==
  /\ last = Resp("register", 409, "User already exists", NoDoc, 258)
  /\ Cardinality(users) = 1

\* C3: no two stored accounts share a username, and no two share an email,
\* whatever the interleaving of registrations in flight.
C3_UniqueAccounts ==
  \A u, v \in users : u # v => u.username # v.username /\ u.email # v.email

\* C4 as claimed: once DELETE /api/account has answered 200 for an account,
\* no stored recipe is owned by it.
C4_NoRecipeOfRemoved ==
  \A a \in removed : \A r \in recipes : r.ownerId # a

\* the recipe ids an answered account removal has taken out of the store
Gone == {id \in cascaded : NewObjectId(creator[id]) \in removed}

\* C4: once DELETE /api/account has answered 200 for an account, the account
\* is out of the store for good, no later login lookup finds it, and every
\* recipe it owned when the removal ran is neither stored, nor answered by
\* GET /api/recipes/:id, nor listed by GET /api/recipes.
C4_Cascade ==
  [][/\ \A u \in users' : u.id \notin removed'
     /\ \A r \in recipes' :
          ~(r.id \in cascaded' /\ NewObjectId(creator'[r.id]) \in removed')
     /\ \A c \in Clients, id \in IdParams :
          (id \in Gone /\ GetRecipe(c, id)) => last'.status = 404
     /\ \A c \in Clients :
          GetRecipes(c) => \A r \in last'.body.items : r.id \notin Gone
     /\ \A c \in Clients, b \in SomeLoginBodies :
          (LoginLookup(c, b.username, b.email, b.password)
             /\ slot'[c].pc = "signing") => slot'[c].id \notin removed]_vars

\* an answered account removal has taken a recipe with it
C4_Witness == Gone # {} /\ last = NoResp

\* C5: every stored recipe's ownerId is the subject of the token that created
\* it, whatever PATCH bodies were sent since, and names an account that is
\* stored or was removed.
C5_OwnerIsCreator ==
  \A r \in recipes :
    /\ r.id \in DOMAIN creator
    /\ IdString(r.ownerId) = creator[r.id]
    /\ r.ownerId \in UserIds \cup removed

\* a patched recipe is stored whose owner account has been removed
C5_Witness == \E r \in recipes : r.title = "v2" /\ r.ownerId \in removed

\* C6: a login with a stored account's username (or, with no username, its
\* email) and its password goes on to sign a token for that account, and the
\* token's subject is that account's id.
C6_LoginSucceeds ==
  [][\A c \in Clients :
       /\ \A b \in LoginBodies, acc \in users :
            (/\ secret # NoSecret
             /\ \/ b.username = acc.username
                \/ b.username = Undef /\ b.email = acc.email
             /\ comparePassword(b.password, acc.password)
             /\ LoginLookup(c, b.username, b.email, b.password)) =>
              slot'[c].pc = "signing" /\ slot'[c].id = acc.id
       /\ LoginSign(c) =>
            last'.status = 200 /\ held'.sub = IdString(slot[c].id)]_vars

\* C7: a login whose identifier matches no account and a login whose password
\* matches no account found under the identifier get the same answer, 401
\* 'Invalid credentials', and neither changes the store.
C7_SameFailure ==
  [][\A c \in Clients, b \in LoginBodies :
       LET identifier == Coalesce(b.username, b.email) IN
       (~Falsy(identifier) /\ ~Falsy(b.password) /\ secret # NoSecret
          /\ LoginLookup(c, b.username, b.email, b.password)) =>
         /\ UNCHANGED store
         /\ (\A u \in LoginMatch(identifier) :
               ~comparePassword(b.password, u.password)) =>
              last'.status = 401 /\ last'.message = "Invalid credentials"]_vars

\* a login with a stored identifier and a wrong password was just refused
C7_Witness == last = WrongPassword /\ users # {}

\* what C8 expects of a protected route for token tok, the gate running at t0
GateError(tok, t0) ==
  IF tok = NoToken THEN <<401, "Missing token">>
  ELSE IF secret = NoSecret THEN <<500, "JWT secret not configured">>
  ELSE IF ~jwtVerify(tok, secret, t0) \/ ~jwtVerify(tok, secret, now)
    THEN <<401, "Invalid token">>
  ELSE <<200, "">>

\* C8: on every protected route a request with no token is answered 401
\* 'Missing token', with a token but no secret 500 'JWT secret not
\* configured', with a token that fails verification at any point of the
\* request 401 'Invalid token'; in each case the store is left unchanged.
C8_GateErrors ==
  [][\A c \in Clients, tok \in Headers, t0 \in GateTimes :
       GateError(tok, t0)[1] # 200 =>
         ((\/ t0 = now /\ TokenTest(c, tok)
           \/ \E body \in CreateBodies :
                ValidCreate(body) /\ CreateRecipe(c, tok, t0, body)
           \/ \E id \in IdParams, body \in SomePatchBodies :
                ValidPatch(body) /\ PatchRecipe(c, tok, t0, id, body)
           \/ DeleteAccount(c, tok, t0)
           \/ \E id \in IdParams : DeleteRecipe(c, tok, t0, id)) =>
            /\ <<last'.status, last'.message>> = GateError(tok, t0)
            /\ UNCHANGED store)]_vars

\* C9: the gate accepts a token issued by login under secret S exactly while
\* the configured secret is S and fewer than TokenTTL ticks have passed since
\* it was issued, and answers 401 'Invalid token' otherwise; the store plays
\* no part, so the token of a removed account is accepted as well.
C9_TokenValidity ==
  [][\A c \in Clients :
       (held # NoToken /\ TokenTest(c, held)) =>
         IF secret = held.sig /\ now < held.iat + TokenTTL
           THEN last' = Resp("token-test", 200, "Token is valid", NoDoc, 320)
           ELSE last' = Resp("token-test", 401, "Invalid token", NoDoc, 233)]_vars

\* the gate has just accepted the token of an account that is removed
C9_Witness ==
  /\ last = Resp("token-test", 200, "Token is valid", NoDoc, 320)
  /\ NewObjectId(held.sub) \in removed

\* C10 as claimed: GET /api/recipes/:id answers 404 when the id is malformed
\* or matches no recipe, 200 with the recipe otherwise, and changes nothing.
C10_MalformedIsNotFound ==
  [][\A c \in Clients, id \in IdParams :
       GetRecipe(c, id) =>
         /\ UNCHANGED store
         /\ IF RecipeById(id) = {}
              THEN last'.status = 404 /\ last'.message = "Recipe not found"
              ELSE last'.status = 200 /\ last'.body \in RecipeById(id)]_vars

\* C10: GET /api/recipes/:id takes no token; it answers 400 'Invalid recipe
\* id' when the id is malformed, 404 'Recipe not found' when it is well-formed
\* and matches no recipe, 200 with the recipe otherwise, and changes nothing.
C10_GetRecipe ==
  [][\A c \in Clients, id \in IdParams :
       GetRecipe(c, id) =>
         /\ UNCHANGED store
         /\ IF ~IsValidObjectId(id)
              THEN last'.status = 400 /\ last'.message = "Invalid recipe id"
            ELSE IF RecipeById(id) = {}
              THEN last'.status = 404 /\ last'.message = "Recipe not found"
            ELSE last'.status = 200 /\ last'.body \in RecipeById(id)]_vars

\* a malformed id was just answered
C10_Witness == last = Resp("get", 400, "Invalid recipe id", NoDoc, 536)

\* the fields present in a PATCH body
Present(body) == {f \in RecipeFields : body[f] # Undef}

\* the owner's PATCH of recipe id with body: the accounts are untouched; with
\* no field present or a malformed id the answer is 400 and nothing changes;
\* otherwise the recipe has exactly the present fields set and every other
\* recipe is as it was
PartialUpdate(tok, id, body) ==
  LET owned == OwnedMatch(id, NewObjectId(tok.sub)) IN
  /\ users' = users
  /\ (Present(body) = {} \/ ~IsValidObjectId(id)) =>
       last'.status = 400 /\ recipes' = recipes
  /\ (Present(body) # {} /\ owned # {}) =>
       /\ recipes \ owned \subseteq recipes'
       /\ Cardinality(recipes') = Cardinality(recipes)
       /\ \A r \in owned : \E w \in recipes' :
            \A f \in DOMAIN r :
              w[f] = IF f \in Present(body) THEN body[f] ELSE r[f]

\* C11 as claimed: a PATCH by the owner, whatever subset of the four fields
\* its body holds, sets exactly the fields present and leaves every other
\* field, recipe and account unchanged; with no field present or a malformed
\* id it answers 400 and changes nothing.
C11_SetsFieldsPresent ==
  [][\A c \in Clients, id \in StoredIds, body \in PatchBodies :
       (Authentic(held, now) /\ PatchRecipe(c, held, now, id, body)) =>
         PartialUpdate(held, id, body)]_vars

\* C11: a PATCH by the owner whose body holds ingredients that is not an array
\* answers 400 'Invalid ingredients' and changes nothing; any other body sets
\* exactly the fields present and leaves every other field, recipe and account
\* unchanged, and with no field present or a malformed id the answer is 400
\* and nothing changes.
C11_PartialUpdate ==
  [][\A c \in Clients, id \in StoredIds, body \in PatchBodies :
       (Authentic(held, now) /\ PatchRecipe(c, held, now, id, body)) =>
         IF body.ingredients = NotArray
           THEN /\ last' = Resp("patch", 400, "Invalid ingredients", NoDoc, 394)
                /\ UNCHANGED store
           ELSE PartialUpdate(held, id, body)]_vars

\* the owner's PATCH of description and instructions alone has just updated a
\* recipe, next to another recipe of the same owner
C11_Witness ==
  \E c \in Clients :
    /\ slot[c].route = "patch" /\ slot[c].pc = "updated"
    /\ \E r \in RecipeById(slot[c].id) :
         /\ r.title = "v1" /\ r.ingredients = "v1"
         /\ r.description = "v2" /\ r.instructions = "v2"
         /\ \E o \in recipes : o.id # r.id /\ o.ownerId = r.ownerId

\* C12: DELETE /api/account removes the subject's recipes in a step before the
\* one that removes the account, and nothing puts them back: the removal step
\* never touches the recipes; when it rejects it answers 500, when it finds no
\* account 404, and in both cases the accounts are as they were while every
\* recipe the cascade took from the subject is out of the store; a recipe the
\* cascade took is never stored again.
C12_RecipesFirst ==
  [][/\ \A c \in Clients, tok \in Headers :
          (DeleteAccount(c, tok, now) /\ slot'[c].pc = "cascaded") =>
            /\ users' = users
            /\ \A r \in recipes' : r.ownerId # NewObjectId(tok.sub)
     /\ \A c \in Clients :
          DeleteAccountRemove(c) =>
            /\ recipes' = recipes
            /\ last' \in {RemovalFailed, NoAccount,
                          Resp("account", 200, "Account deleted", NoDoc, 475)}
            /\ last' = NoAccount => UserById(slot[c].id) = {}
            /\ (UserById(slot[c].id) = {} /\ last' # RemovalFailed) =>
                 last' = NoAccount
            /\ last'.status # 200 =>
                 /\ users' = users
                 /\ \A id \in cascaded :
                      creator[id] = IdString(slot[c].id) =>
                        \A r \in recipes' : r.id # id
     /\ \A r \in recipes' : r.id \notin cascaded']_vars

\* the removal of a stored account was just answered 500 with the account
\* still stored and its recipe gone
C12_Witness ==
  /\ last = RemovalFailed
  /\ recipes = {}
  /\ \E id \in cascaded : NewObjectId(creator[id]) \in UserIds
====
